---- MODULE Spec2Model ----
(***************************************************************************)
(* Model of the `evil` crate: the Supervillain type (supervillain.rs), its *)
(* Sidekick (sidekick.rs and the test double in supervillain.rs), and the  *)
(* capability traits Henchman, Gadget, Cipher and Megaweapon.              *)
(*                                                                         *)
(* A Rust String is a sequence of one-character strings.  An Option<T> is  *)
(* a sequence of length 0 (None) or 1 (Some).                              *)
(***************************************************************************)
EXTENDS Integers, Sequences, FiniteSets, TLC

VARIABLES first_name, last_name, sidekick, shared_key,
          henchman, calls, op, input, ret, built, panicked

vars == <<first_name, last_name, sidekick, shared_key,
          henchman, calls, op, input, ret, built, panicked>>

sut == <<first_name, last_name, sidekick, shared_key>>

(***************************************************************************)
(* Bounds and input domains                                                *)
(***************************************************************************)
MaxLen == 3

MaxTargets == 2

Alphabet == {"a", " ", "\t"}

Targets == {<<"P">>, <<"T">>}

Secrets == {<<"S">>, <<"Z">>}

Keys == {<<"K">>, <<"J">>}

Ciphers == {"CipherDouble", "KeyedCipher"}

SeqsUpTo(S, n) == UNION {[1..k -> S] : k \in 0..n}

Names == SeqsUpTo(Alphabet, MaxLen)

WorkflowNames == {<<>>, <<"a">>, <<"a", " ", "a">>, <<"a", " ">>,
                  <<" ", " ">>, <<"a", "\t", "a">>}

TargetLists == SeqsUpTo(Targets, MaxTargets)

None == <<>>

Some(x) == <<x>>

(***************************************************************************)
(* Collaborators                                                           *)
(***************************************************************************)
\* One recorded call on a collaborator: the function, its string arguments,
\* and what it returned (retb for a bool, rets for a String or Vec<String>).
Call(fn, args, retb, rets) ==
    [fn |-> fn, args |-> args, retb |-> retb, rets |-> rets]

\* Sidekick::new of sidekick.rs: agree is true, no targets, tell does nothing.
RealSidekick ==
    [kind |-> "real", agree_answer |-> TRUE, targets |-> <<>>,
     received_msg |-> <<>>]

\* tests::doubles::Sidekick with the fields a test sets after new().
DoubleSidekick(answer, targets) ==
    [kind |-> "double", agree_answer |-> answer, targets |-> targets,
     received_msg |-> <<>>]

Sidekicks ==
    {RealSidekick} \cup
    {DoubleSidekick(a, t) : a \in BOOLEAN, t \in TargetLists}

agree(sk) == IF sk.kind = "real" THEN TRUE ELSE sk.agree_answer

get_weak_targets(sk) == IF sk.kind = "real" THEN <<>> ELSE sk.targets

tell(sk, ciphered_msg) ==
    IF sk.kind = "real" THEN sk ELSE [sk EXCEPT !.received_msg = ciphered_msg]

\* Cipher::transform.  CipherDouble ignores the key; KeyedCipher stands for an
\* implementation of the trait whose output depends on both arguments.
transform(cipher, secret, key) ==
    IF cipher = "CipherDouble" THEN <<"+">> \o secret \o <<"+">>
    ELSE secret \o key

\* HenchmanDouble::default()
HenchmanDefault ==
    [hq_location |-> None, done_hard_things |-> FALSE, fought_enemies |-> FALSE]

build_secret_hq(h, location) == [h EXCEPT !.hq_location = Some(location)]

do_hard_things(h) == [h EXCEPT !.done_hard_things = TRUE]

fight_enemies(h) == [h EXCEPT !.fought_enemies = TRUE]

(***************************************************************************)
(* Strings and vectors                                                     *)
(***************************************************************************)
\* str::split(sep).collect::<Vec<_>>() for a one-character separator: the
\* pieces between consecutive separators, empty pieces included.
RECURSIVE split(_, _)
split(s, sep) ==
    IF \A i \in 1..Len(s) : s[i] # sep THEN <<s>>
    ELSE LET i == CHOOSE k \in 1..Len(s) :
                      s[k] = sep /\ \A j \in 1..(k - 1) : s[j] # sep
         IN  <<SubSeq(s, 1, i - 1)>> \o split(SubSeq(s, i + 1, Len(s)), sep)

\* The bounds check of Vec indexing: v[i] (0-based) panics unless i < v.len().
InBounds(v, i) == i \in 0..(Len(v) - 1)

At(v, i) == v[i + 1]

(***************************************************************************)
(* Supervillain                                                            *)
(***************************************************************************)
Supervillain(fn, ln, sk, key) ==
    [first_name |-> fn, last_name |-> ln, sidekick |-> sk, shared_key |-> key]

Self == Supervillain(first_name, last_name, sidekick, shared_key)

NameMustHave == "Name must have first and last name"

IndexOutOfBounds == "index out of bounds"

full_name(self) == self.first_name \o <<" ">> \o self.last_name

\* Variant: the two components land in the wrong fields.
set_full_name_swapped(self, name) ==
    LET components == split(name, " ") IN
    IF Len(components) # 2
    THEN [self |-> self, panic |-> Some(NameMustHave)]
    ELSE [self |-> [self EXCEPT !.first_name = At(components, 1),
                                !.last_name = At(components, 0)],
          panic |-> None]

\* Variant: the guard of try_from (fewer than two) in place of "not two".
set_full_name_lenient(self, name) ==
    LET components == split(name, " ") IN
    IF Len(components) < 2
    THEN [self |-> self, panic |-> Some(NameMustHave)]
    ELSE [self |-> [self EXCEPT !.first_name = At(components, 0),
                                !.last_name = At(components, 1)],
          panic |-> None]

set_full_name(self, name) ==
    LET components == split(name, " ") IN
    IF Len(components) # 2
    THEN [self |-> self, panic |-> Some(NameMustHave)]
    ELSE IF ~(InBounds(components, 0) /\ InBounds(components, 1))
    THEN [self |-> self, panic |-> Some(IndexOutOfBounds)]
    ELSE [self |-> [self EXCEPT !.first_name = At(components, 0),
                                !.last_name = At(components, 1)],
          panic |-> None]

attack(self) == <<Call("shoot", <<>>, FALSE, <<>>)>>

\* Variant: the test of the answer lost its negation.
conspire_inverted(self) ==
    IF self.sidekick # None
    THEN LET answer == agree(self.sidekick[1]) IN
         [self |-> IF answer THEN [self EXCEPT !.sidekick = None] ELSE self,
          calls |-> <<Call("agree", <<>>, answer, <<>>)>>]
    ELSE [self |-> self, calls |-> <<>>]

\* Variant: the sidekick is fired whatever it answers.
conspire_always_fires(self) ==
    IF self.sidekick # None
    THEN [self |-> [self EXCEPT !.sidekick = None],
          calls |-> <<Call("agree", <<>>, agree(self.sidekick[1]), <<>>)>>]
    ELSE [self |-> self, calls |-> <<>>]

\* Variant: firing rebuilds the struct with ..Default::default() and loses
\* the shared key.
conspire_resets(self) ==
    IF self.sidekick # None
    THEN LET answer == agree(self.sidekick[1]) IN
         [self |-> IF ~answer
                   THEN Supervillain(self.first_name, self.last_name, None, <<>>)
                   ELSE self,
          calls |-> <<Call("agree", <<>>, answer, <<>>)>>]
    ELSE [self |-> self, calls |-> <<>>]

conspire(self) ==
    IF self.sidekick # None
    THEN LET answer == agree(self.sidekick[1]) IN
         [self |-> IF ~answer THEN [self EXCEPT !.sidekick = None] ELSE self,
          calls |-> <<Call("agree", <<>>, answer, <<>>)>>]
    ELSE [self |-> self, calls |-> <<>>]

\* Variant: the last target instead of the first.
stage1_last_target(self, h) ==
    IF self.sidekick # None
    THEN LET targets == get_weak_targets(self.sidekick[1])
             asked == <<Call("get_weak_targets", <<>>, FALSE, targets)>>
         IN  IF targets # <<>>
             THEN [henchman |-> build_secret_hq(h, At(targets, Len(targets) - 1)),
                   calls |-> asked \o <<Call("build_secret_hq",
                                <<At(targets, Len(targets) - 1)>>, FALSE, <<>>)>>,
                   panic |-> None]
             ELSE [henchman |-> h, calls |-> asked, panic |-> None]
    ELSE [henchman |-> h, calls |-> <<>>, panic |-> None]

start_world_domination_stage1(self, h) ==
    IF self.sidekick # None
    THEN LET targets == get_weak_targets(self.sidekick[1])
             asked == <<Call("get_weak_targets", <<>>, FALSE, targets)>>
         IN  IF targets # <<>>
             THEN IF InBounds(targets, 0)
                  THEN [henchman |-> build_secret_hq(h, At(targets, 0)),
                        calls |-> asked \o <<Call("build_secret_hq",
                                     <<At(targets, 0)>>, FALSE, <<>>)>>,
                        panic |-> None]
                  ELSE [henchman |-> h, calls |-> asked,
                        panic |-> Some(IndexOutOfBounds)]
             ELSE [henchman |-> h, calls |-> asked, panic |-> None]
    ELSE [henchman |-> h, calls |-> <<>>, panic |-> None]

\* Variant: the two calls in the other order.
stage2_reversed(self, h) ==
    [henchman |-> do_hard_things(fight_enemies(h)),
     calls |-> <<Call("fight_enemies", <<>>, FALSE, <<>>),
                 Call("do_hard_things", <<>>, FALSE, <<>>)>>]

start_world_domination_stage2(self, h) ==
    [henchman |-> fight_enemies(do_hard_things(h)),
     calls |-> <<Call("do_hard_things", <<>>, FALSE, <<>>),
                 Call("fight_enemies", <<>>, FALSE, <<>>)>>]

\* Variant: the secret goes to the sidekick in the clear.
tell_plans_plain(self, secret, cipher) ==
    IF self.sidekick # None
    THEN LET ciphered_msg == transform(cipher, secret, self.shared_key) IN
         [self |-> [self EXCEPT
                      !.sidekick = Some(tell(self.sidekick[1], secret))],
          calls |-> <<Call("transform", <<secret, self.shared_key>>, FALSE,
                           <<ciphered_msg>>),
                      Call("tell", <<secret>>, FALSE, <<>>)>>]
    ELSE [self |-> self, calls |-> <<>>]

\* Variant: the message is ciphered before the sidekick is looked for.
tell_plans_eager(self, secret, cipher) ==
    LET ciphered_msg == transform(cipher, secret, self.shared_key)
        ciphered == <<Call("transform", <<secret, self.shared_key>>, FALSE,
                           <<ciphered_msg>>)>>
    IN  IF self.sidekick # None
        THEN [self |-> [self EXCEPT
                      !.sidekick = Some(tell(self.sidekick[1], ciphered_msg))],
              calls |-> ciphered \o <<Call("tell", <<ciphered_msg>>, FALSE, <<>>)>>]
        ELSE [self |-> self, calls |-> ciphered]

tell_plans(self, secret, cipher) ==
    IF self.sidekick # None
    THEN LET ciphered_msg == transform(cipher, secret, self.shared_key) IN
         [self |-> [self EXCEPT
                      !.sidekick = Some(tell(self.sidekick[1], ciphered_msg))],
          calls |-> <<Call("transform", <<secret, self.shared_key>>, FALSE,
                           <<ciphered_msg>>),
                      Call("tell", <<ciphered_msg>>, FALSE, <<>>)>>]
    ELSE [self |-> self, calls |-> <<>>]

\* Variant: the guard is off by one, so a single component reaches the
\* indexing of components[1].
try_from_off_by_one(name) ==
    LET components == split(name, " ") IN
    IF Len(components) < 1
    THEN [ok |-> FALSE, err |-> "Too few arguments", value |-> None,
          panic |-> None]
    ELSE IF ~(InBounds(components, 0) /\ InBounds(components, 1))
    THEN [ok |-> FALSE, err |-> "", value |-> None,
          panic |-> Some(IndexOutOfBounds)]
    ELSE [ok |-> TRUE, err |-> "",
          value |-> Some(Supervillain(At(components, 0), At(components, 1),
                                      None, <<>>)),
          panic |-> None]

\* Result<Supervillain, anyhow::Error>: ok with a value, or an error message;
\* panic is set when an index is out of bounds.
try_from(name) ==
    LET components == split(name, " ") IN
    IF Len(components) < 2
    THEN [ok |-> FALSE, err |-> "Too few arguments", value |-> None,
          panic |-> None]
    ELSE IF ~(InBounds(components, 0) /\ InBounds(components, 1))
    THEN [ok |-> FALSE, err |-> "", value |-> None,
          panic |-> Some(IndexOutOfBounds)]
    ELSE [ok |-> TRUE, err |-> "",
          value |-> Some(Supervillain(At(components, 0), At(components, 1),
                                      None, <<>>)),
          panic |-> None]

(***************************************************************************)
(* State machine                                                           *)
(***************************************************************************)
NoInput == [name |-> <<>>, secret |-> <<>>, cipher |-> ""]

NoResult == [ok |-> FALSE, err |-> "", value |-> None, panic |-> None]

InitNames == {<<<<>>, <<>>>>, <<<<"b">>, <<"b">>>>}

SetSelf(s) ==
    /\ first_name' = s.first_name
    /\ last_name' = s.last_name
    /\ sidekick' = s.sidekick
    /\ shared_key' = s.shared_key

\* A Supervillain built with explicit fields, as the test contexts and the
\* tests do; nothing has been called yet.
Init ==
    /\ \E n \in InitNames : first_name = n[1] /\ last_name = n[2]
    /\ sidekick \in {None} \cup {Some(s) : s \in Sidekicks}
    /\ shared_key \in Keys
    /\ henchman = HenchmanDefault
    /\ calls = <<>>
    /\ op = "new"
    /\ input = NoInput
    /\ ret = None
    /\ built = NoResult
    /\ panicked = None

FullName ==
    /\ panicked = None
    /\ op' = "full_name"
    /\ input' = NoInput
    /\ ret' = Some(full_name(Self))
    /\ calls' = <<>>
    /\ built' = NoResult
    /\ UNCHANGED <<sut, henchman, panicked>>

SetFullName(name) ==
    /\ panicked = None
    /\ LET r == set_full_name(Self, name) IN
         /\ SetSelf(r.self)
         /\ panicked' = r.panic
    /\ op' = "set_full_name"
    /\ input' = [NoInput EXCEPT !.name = name]
    /\ ret' = None
    /\ calls' = <<>>
    /\ built' = NoResult
    /\ UNCHANGED henchman

Attack ==
    /\ panicked = None
    /\ op' = "attack"
    /\ input' = NoInput
    /\ ret' = None
    /\ calls' = attack(Self)
    /\ built' = NoResult
    /\ UNCHANGED <<sut, henchman, panicked>>

Conspire ==
    /\ panicked = None
    /\ LET r == conspire(Self) IN
         /\ SetSelf(r.self)
         /\ calls' = r.calls
    /\ op' = "conspire"
    /\ input' = NoInput
    /\ ret' = None
    /\ built' = NoResult
    /\ UNCHANGED <<henchman, panicked>>

\* The caller passes a fresh HenchmanDouble.
Stage1 ==
    /\ panicked = None
    /\ LET r == start_world_domination_stage1(Self, HenchmanDefault) IN
         /\ henchman' = r.henchman
         /\ calls' = r.calls
         /\ panicked' = r.panic
    /\ op' = "start_world_domination_stage1"
    /\ input' = NoInput
    /\ ret' = None
    /\ built' = NoResult
    /\ UNCHANGED sut

Stage2 ==
    /\ panicked = None
    /\ LET r == start_world_domination_stage2(Self, HenchmanDefault) IN
         /\ henchman' = r.henchman
         /\ calls' = r.calls
    /\ op' = "start_world_domination_stage2"
    /\ input' = NoInput
    /\ ret' = None
    /\ built' = NoResult
    /\ UNCHANGED <<sut, panicked>>

TellPlans(secret, cipher) ==
    /\ panicked = None
    /\ LET r == tell_plans(Self, secret, cipher) IN
         /\ SetSelf(r.self)
         /\ calls' = r.calls
    /\ op' = "tell_plans"
    /\ input' = [NoInput EXCEPT !.secret = secret, !.cipher = cipher]
    /\ ret' = None
    /\ built' = NoResult
    /\ UNCHANGED <<henchman, panicked>>

\* An associated function: it builds another Supervillain and leaves the
\* existing one alone.
TryFrom(name) ==
    /\ panicked = None
    /\ LET r == try_from(name) IN
         /\ built' = r
         /\ panicked' = r.panic
    /\ op' = "try_from"
    /\ input' = [NoInput EXCEPT !.name = name]
    /\ ret' = None
    /\ calls' = <<>>
    /\ UNCHANGED <<sut, henchman>>

Next ==
    \/ FullName
    \/ \E name \in WorkflowNames : SetFullName(name)
    \/ Attack
    \/ Conspire
    \/ Stage1
    \/ Stage2
    \/ \E secret \in Secrets, cipher \in Ciphers : TellPlans(secret, cipher)
    \/ \E name \in WorkflowNames : TryFrom(name)

Spec == Init /\ [][Next]_vars

\* Context::setup: the names given, every other field at its Default.
Setup ==
    /\ \E n \in InitNames : first_name = n[1] /\ last_name = n[2]
    /\ sidekick = None
    /\ shared_key = <<>>
    /\ henchman = HenchmanDefault
    /\ calls = <<>>
    /\ op = "new"
    /\ input = NoInput
    /\ ret = None
    /\ built = NoResult
    /\ panicked = None

\* The name-handling functions over every string of the bounded alphabet.
NextNames ==
    \/ FullName
    \/ \E name \in Names : SetFullName(name)
    \/ \E name \in Names : TryFrom(name)

SpecNames == Setup /\ [][NextNames]_vars

(***************************************************************************)
(* Properties                                                              *)
(***************************************************************************)
Present(sk) == sk # None

CallsTo(log, fn) ==
    LET IsFn(c) == c.fn = fn IN SelectSeq(log, IsFn)

\* The components of s between the characters of Seps, given by the positions
\* of the separators: one more component than separators, empty ones included.
Fields(s, Seps) ==
    LET P == {i \in 1..Len(s) : s[i] \in Seps}
        n == Cardinality(P)
        Kth(k) == CHOOSE i \in P : Cardinality({j \in P : j < i}) = k - 1
        First(k) == IF k = 1 THEN 1 ELSE Kth(k - 1) + 1
        Last(k) == IF k = n + 1 THEN Len(s) ELSE Kth(k) - 1
    IN  [k \in 1..(n + 1) |-> [j \in 1..(Last(k) - First(k) + 1) |->
                                   s[First(k) + j - 1]]]

Whitespace == {" ", "\t"}

\* C1: with a Sidekick attached, conspire() leaves it absent exactly when its
\* agree() returned false, and leaves it as it was when agree() returned true.
C1_ConspireFiresIffDisagrees ==
    [][(Present(sidekick) /\ op' = "conspire") =>
          /\ (~Present(sidekick')) <=> ~agree(sidekick[1])
          /\ agree(sidekick[1]) => sidekick' = sidekick
          /\ calls' = <<Call("agree", <<>>, agree(sidekick[1]), <<>>)>>]_vars

C1_Witness ==
    /\ op = "conspire"
    /\ calls = <<Call("agree", <<>>, FALSE, <<>>)>>
    /\ ~Present(sidekick)

\* C2: with a Sidekick attached, stage 1 calls build_secret_hq exactly once,
\* with element 0 of the targets, when get_weak_targets returns a non-empty
\* list, and never when the list is empty.
C2_Stage1BuildsAtFirstTarget ==
    [][(Present(sidekick) /\ op' = "start_world_domination_stage1") =>
          LET targets == get_weak_targets(sidekick[1])
              builds == CallsTo(calls', "build_secret_hq")
          IN  IF targets # <<>>
              THEN /\ builds = <<Call("build_secret_hq", <<targets[1]>>,
                                      FALSE, <<>>)>>
                   /\ henchman'.hq_location = Some(targets[1])
              ELSE /\ builds = <<>>
                   /\ henchman'.hq_location = None]_vars

C2_Witness ==
    /\ op = "start_world_domination_stage1"
    /\ Present(sidekick)
    /\ Len(get_weak_targets(sidekick[1])) >= 2
    /\ get_weak_targets(sidekick[1])[1] # get_weak_targets(sidekick[1])[2]
    /\ henchman.hq_location = Some(get_weak_targets(sidekick[1])[1])
    /\ Len(CallsTo(calls, "build_secret_hq")) = 1

\* C3: with a Sidekick attached, tell_plans calls the Sidekick's tell exactly
\* once, with exactly cipher.transform(secret, shared_key).
C3_TellReceivesCipheredMessage ==
    [][(Present(sidekick) /\ op' = "tell_plans") =>
          LET expected == transform(input'.cipher, input'.secret, shared_key)
          IN  /\ CallsTo(calls', "tell") =
                     <<Call("tell", <<expected>>, FALSE, <<>>)>>
              /\ Present(sidekick')
              /\ sidekick'[1] = tell(sidekick[1], expected)]_vars

C3_Witness ==
    /\ op = "tell_plans"
    /\ input.cipher = "KeyedCipher"
    /\ Present(sidekick)
    /\ sidekick[1].received_msg = input.secret \o shared_key
    /\ Len(CallsTo(calls, "tell")) = 1

\* C4: stage 2 calls do_hard_things once and then fight_enemies once, with or
\* without a Sidekick.
C4_Stage2HardThingsThenFight ==
    op = "start_world_domination_stage2" =>
        /\ Len(calls) = 2
        /\ calls[1].fn = "do_hard_things"
        /\ calls[2].fn = "fight_enemies"
        /\ henchman.done_hard_things /\ henchman.fought_enemies

C4_Witness ==
    /\ op = "start_world_domination_stage2"
    /\ ~Present(sidekick)
    /\ Len(calls) = 2
    /\ henchman.done_hard_things /\ henchman.fought_enemies

\* C5: with no Sidekick attached, stage 1 and tell_plans do nothing: no call
\* reaches the henchman or the cipher, nothing changes and nothing panics.
C5_NoSidekickNoOp ==
    [][(~Present(sidekick) /\
        op' \in {"start_world_domination_stage1", "tell_plans"}) =>
          /\ calls' = <<>>
          /\ henchman' = IF op' = "tell_plans" THEN henchman ELSE HenchmanDefault
          /\ panicked' = None
          /\ sut' = sut]_vars

C5_Witness ==
    /\ op = "tell_plans"
    /\ ~Present(sidekick)
    /\ calls = <<>>
    /\ panicked = None

\* C6: the presence of the Sidekick changes only from attached to absent, and
\* only in a conspire() whose agree() returned false; an absent Sidekick stays
\* absent, and conspire() without a Sidekick changes nothing.
C6_SidekickOnlyEverFired ==
    [][/\ (Present(sidekick') # Present(sidekick)) =>
             /\ Present(sidekick) /\ ~Present(sidekick')
             /\ op' = "conspire"
             /\ ~agree(sidekick[1])
       /\ ~Present(sidekick) => ~Present(sidekick')
       /\ (~Present(sidekick) /\ op' = "conspire") =>
             (sut' = sut /\ calls' = <<>>)]_vars

C6_Witness ==
    /\ op = "conspire"
    /\ ~Present(sidekick)
    /\ calls = <<>>

\* C7 as stated: set_full_name splits the name at whitespace; with exactly two
\* components it sets first_name and last_name to them, otherwise it panics
\* with "Name must have first and last name".
C7_SplitsAtWhitespace ==
    op = "set_full_name" =>
        LET components == Fields(input.name, Whitespace) IN
        IF Len(components) = 2
        THEN /\ panicked = None
             /\ first_name = components[1]
             /\ last_name = components[2]
        ELSE panicked = Some(NameMustHave)

\* C7 amended: the components are the pieces between single space characters
\* (no other whitespace separates, empty pieces count); with exactly two it
\* sets first_name and last_name to them, otherwise it panics with "Name must
\* have first and last name".
C7_SplitsAtSpace ==
    op = "set_full_name" =>
        LET components == Fields(input.name, {" "}) IN
        IF Len(components) = 2
        THEN /\ panicked = None
             /\ first_name = components[1]
             /\ last_name = components[2]
        ELSE panicked = Some(NameMustHave)

C7_Witness ==
    /\ op = "set_full_name"
    /\ input.name = <<"a", " ", "\t">>
    /\ first_name = <<"a">>
    /\ last_name = <<"\t">>
    /\ panicked = None

\* C8: try_from never panics; it returns an error exactly when the name has
\* fewer than two components, and otherwise a Supervillain with the first and
\* second components as first_name and last_name and no Sidekick.
C8_TryFromErrorIffTooFew ==
    op = "try_from" =>
        LET components == Fields(input.name, {" "}) IN
        /\ panicked = None
        /\ IF Len(components) < 2
           THEN ~built.ok /\ built.value = None
           ELSE /\ built.ok
                /\ Len(built.value) = 1
                /\ built.value[1].first_name = components[1]
                /\ built.value[1].last_name = components[2]
                /\ built.value[1].sidekick = None

C8_Witness ==
    /\ op = "try_from"
    /\ input.name = <<"a", " ", "\t">>
    /\ built.ok
    /\ built.value[1].first_name = <<"a">>
    /\ built.value[1].last_name = <<"\t">>

\* C9 as stated: on every string, try_from returns an error exactly when
\* set_full_name panics.
C9_SameMalformedCondition ==
    op = "try_from" =>
        ((~built.ok) <=> (set_full_name(Self, input.name).panic # None))

\* C9 amended: whenever try_from returns an error set_full_name panics, and
\* the two agree on every string with at most two components; on a string
\* with three or more components try_from succeeds while set_full_name panics.
C9_ErrorImpliesPanic ==
    op = "try_from" =>
        LET aborts == set_full_name(Self, input.name).panic # None
            n == Len(Fields(input.name, {" "}))
        IN  /\ (~built.ok) => aborts
            /\ n <= 2 => ((~built.ok) <=> aborts)
            /\ n >= 3 => (built.ok /\ aborts)

C9_Witness ==
    /\ op = "try_from"
    /\ Len(Fields(input.name, {" "})) = 3
    /\ built.ok
    /\ set_full_name(Self, input.name).panic = Some(NameMustHave)

\* C10: stage 1, stage 2, tell_plans, attack and full_name leave first_name,
\* last_name, shared_key and the presence of the Sidekick as they were;
\* conspire leaves first_name, last_name and shared_key as they were.
C10_Frame ==
    [][/\ op' \in {"start_world_domination_stage1",
                   "start_world_domination_stage2", "tell_plans", "attack",
                   "full_name"} =>
             /\ first_name' = first_name
             /\ last_name' = last_name
             /\ shared_key' = shared_key
             /\ Present(sidekick') = Present(sidekick)
       /\ op' = "conspire" =>
             /\ first_name' = first_name
             /\ last_name' = last_name
             /\ shared_key' = shared_key]_vars

C10_Witness ==
    /\ op = "conspire"
    /\ calls = <<Call("agree", <<>>, FALSE, <<>>)>>
    /\ first_name = <<"a">>
    /\ shared_key = <<"K">>
    /\ ~Present(sidekick)

====
